---- MODULE Spec2Model ----
(***************************************************************************)
(* Model of log_merge.py: the two-way streaming merge of two JSON-lines    *)
(* log files (_get_output_record), the lazy reader (_get_record), the      *)
(* ordering of LogRecord (__lt__ / __gt__ over the parsed timestamp) and   *)
(* the driver (main, _create_output_dir).                                  *)
(*                                                                         *)
(* The class body of LogRecord is read with its indentation normalised     *)
(* (the @property line carries a tab in the source), i.e. __timestamp is   *)
(* a property of LogRecord.                                                *)
(***************************************************************************)
EXTENDS Integers, Sequences, FiniteSets, TLC

VARIABLES
    log_a,            \* input A: [path, rows]            (environment, never written)
    log_b,            \* input B: [path, rows]            (environment, never written)
    output_dir,       \* [exists, old]: the destination directory; old = its previous content
    overwrite,        \* args.overwrite: -w was given
    prompts,          \* history: the number of overwrite prompts shown
    answer,           \* history: the answer typed at the prompt, "none" before
    merged_log_file,  \* the rows written to merged_log.jsonl so far
    out_state,        \* "absent" | "open" | "closed": merged_log.jsonl and its handle
    log_a_record,     \* lookahead of A: Unbound | None | LogRecord
    log_b_record,     \* lookahead of B: Unbound | None | LogRecord
    read_a,           \* rows of A consumed by its reader
    read_b,           \* rows of B consumed by its reader
    handle_a,         \* "unopened" | "open" | "closed": read handle of A
    handle_b,         \* "unopened" | "open" | "closed": read handle of B
    yield_src,        \* history: the source ("a" / "b") of every record yielded so far
    pc,               \* position of the run
    error             \* the exception that ended the run, or "none"

vars == <<log_a, log_b, output_dir, overwrite, prompts, answer, merged_log_file, out_state, log_a_record,
          log_b_record, read_a, read_b, handle_a, handle_b, yield_src, pc, error>>

(***************************************************************************)
(* Bounds                                                                  *)
(***************************************************************************)
MaxLenA == 2
MaxLenB == 2
\* The runs with -w or with an existing destination directory take input files
\* of at most this many rows.
MaxLenExisting == 1

(***************************************************************************)
(* Values                                                                  *)
(***************************************************************************)
None == [none |-> TRUE]
Unbound == [unbound |-> TRUE]

LogRecordFields == {"log_level", "timestamp", "message"}

\* A row of a file: the text of a JSON object in the layout json.dumps gives
\* it (keys in field order, ", " and ": " separators), the text of a JSON
\* object in another layout, and a row that is not JSON.
JsonRow(obj) == [text |-> "object", obj |-> obj, layout |-> "dumps"]
CompactRow(obj) == [text |-> "object", obj |-> obj, layout |-> "compact"]
GarbageRow == [text |-> "garbage"]

Obj(level, ts, msg) == [log_level |-> level, timestamp |-> ts, message |-> msg]

\* The rows the input files are drawn from: three well-formed records (the
\* example of the specification), a record in another layout whose timestamp
\* is not zero-padded,
\* a record whose timestamp has another format, an object without message,
\* an object with a fourth field, and a row that is not JSON.
InputRows ==
    { JsonRow(Obj("INFO", "2024-01-01 00:00:01", "a")),
      JsonRow(Obj("WARN", "2024-01-01 00:00:03", "b")),
      JsonRow(Obj("INFO", "2024-01-01 00:00:05", "c")),
      CompactRow(Obj("WARN", "2024-1-1 0:0:3", "b2")),
      JsonRow(Obj("INFO", "01.01.2024 00:00:04", "d")),
      JsonRow([log_level |-> "INFO", timestamp |-> "2024-01-01 00:00:03"]),
      JsonRow([log_level |-> "INFO", timestamp |-> "2024-01-01 00:00:03",
               message |-> "e", host |-> "h"]),
      GarbageRow }

\* Paths: what exists(), is_file() and suffix answer for them.
Path(e, f, s) == [exists |-> e, is_file |-> f, suffix |-> s]

SeqUpTo(S, n) == UNION { [1..k -> S] : k \in 0..n }

\* The input files: a regular .jsonl file with any rows, and four fixed ones:
\* a missing path, a directory, a file with another suffix, an upper-case suffix.
InputFiles(n) ==
    { [path |-> Path(TRUE, TRUE, ".jsonl"), rows |-> r] : r \in SeqUpTo(InputRows, n) }
    \cup
    { [path |-> Path(FALSE, FALSE, ".jsonl"), rows |-> <<>>],
      [path |-> Path(TRUE, FALSE, ".jsonl"), rows |-> <<>>],
      [path |-> Path(TRUE, TRUE, ".txt"),
       rows |-> <<JsonRow(Obj("INFO", "2024-01-01 00:00:01", "a"))>>],
      [path |-> Path(TRUE, TRUE, ".JSONL"),
       rows |-> <<JsonRow(Obj("INFO", "2024-01-01 00:00:01", "a"))>>] }

\* The answers typed at the overwrite prompt.
Answers == {"no", "No", "NO", "y", ""}

(***************************************************************************)
(* Pure functions                                                          *)
(***************************************************************************)
\* str.lower() on the strings it is applied to.
lower(s) ==
    CASE s = ".JSONL" -> ".jsonl"
      [] s = "No" -> "no"
      [] s = "NO" -> "no"
      [] OTHER -> s

\* datetime.strptime(s, '%Y-%m-%d %H:%M:%S'): the seconds of the parsed
\* value, or -1 when strptime raises ValueError.  The directives accept
\* one-digit fields, so a timestamp that is not zero-padded parses.
strptime(s) ==
    CASE s = "2024-01-01 00:00:01" -> 1
      [] s = "2024-01-01 00:00:03" -> 3
      [] s = "2024-1-1 0:0:3" -> 3
      [] s = "2024-01-01 00:00:05" -> 5
      [] OTHER -> -1

\* LogRecord.__timestamp parsed to the minute: the seconds are dropped.
LogRecord_timestamp_minutes(self) ==
    IF strptime(self.timestamp) = -1 THEN -1 ELSE 0

\* LogRecord.__timestamp
LogRecord_timestamp(self) == strptime(self.timestamp)

\* LogRecord.__lt__ with the comparison of the timestamps reversed.
LogRecord_lt_reversed(self, other) ==
    IF other = None THEN TRUE
    ELSE LogRecord_timestamp(self) > LogRecord_timestamp(other)

\* LogRecord.__lt__ with <= for <.
LogRecord_lt_le(self, other) ==
    IF other = None THEN TRUE
    ELSE LogRecord_timestamp(self) <= LogRecord_timestamp(other)

\* LogRecord.__lt__
LogRecord_lt(self, other) ==
    IF other = None THEN TRUE
    ELSE LogRecord_timestamp(self) < LogRecord_timestamp(other)

\* LogRecord.__gt__ answering True against None, as __lt__ does.
LogRecord_gt_none_true(self, other) ==
    IF other = None THEN TRUE
    ELSE LogRecord_timestamp(self) > LogRecord_timestamp(other)

\* LogRecord.__gt__
LogRecord_gt(self, other) ==
    IF other = None THEN FALSE
    ELSE LogRecord_timestamp(self) > LogRecord_timestamp(other)

\* a < b of line 103: a.__lt__(b) when a is a LogRecord; None has no ordering,
\* so for a = None Python falls back on the reflected b.__gt__(a).
Less(a, b) ==
    IF a # None THEN LogRecord_lt(a, b) ELSE LogRecord_gt(b, a)

\* a < b raises: a property raises ValueError (both sides are records and a
\* timestamp does not parse), or neither side is a record (TypeError).
LessRaises(a, b) ==
    IF a # None /\ b # None
    THEN IF LogRecord_timestamp(a) = -1 \/ LogRecord_timestamp(b) = -1
         THEN "ValueError" ELSE "none"
    ELSE IF a = None /\ b = None THEN "TypeError" ELSE "none"

\* _check_path_to_log: the exception it raises, or "none" (it returns True).
_check_path_to_log(log_path) ==
    IF ~(log_path.exists /\ log_path.is_file) THEN "FileNotFoundError"
    ELSE IF lower(log_path.suffix) # ".jsonl" THEN "ValueError"
    ELSE "none"

\* json.loads(row) followed by LogRecord(**...): the exception raised, or "none".
RowRaises(row) ==
    IF row.text # "object" THEN "JSONDecodeError"
    ELSE IF DOMAIN row.obj # LogRecordFields THEN "TypeError"
    ELSE "none"

\* LogRecord(**json.loads(row)) for a row that does not raise.
LogRecordOf(row) ==
    [log_level |-> row.obj.log_level, timestamp |-> row.obj.timestamp,
     message |-> row.obj.message]

\* json.dumps of the record with its timestamp formatted again from the
\* parsed value instead of the string that was read.
json_dumps_normalised(log_record) ==
    JsonRow(Obj(log_record.log_level,
                CASE strptime(log_record.timestamp) = 1 -> "2024-01-01 00:00:01"
                  [] strptime(log_record.timestamp) = 3 -> "2024-01-01 00:00:03"
                  [] strptime(log_record.timestamp) = 5 -> "2024-01-01 00:00:05"
                  [] OTHER -> log_record.timestamp,
                log_record.message))

\* json.dumps(asdict(log_record)): the row written for a record.
json_dumps(log_record) ==
    JsonRow(Obj(log_record.log_level, log_record.timestamp, log_record.message))

\* _get_record iterating the rows of the file from the last to the first.
_get_record_reversed(log, n) ==
    IF n = 0 /\ _check_path_to_log(log.path) # "none"
    THEN [kind |-> "raise", exc |-> _check_path_to_log(log.path), opened |-> FALSE]
    ELSE IF n >= Len(log.rows)
    THEN [kind |-> "stop", opened |-> TRUE]
    ELSE IF RowRaises(log.rows[Len(log.rows) - n]) # "none"
    THEN [kind |-> "raise", exc |-> RowRaises(log.rows[Len(log.rows) - n]), opened |-> TRUE]
    ELSE [kind |-> "record", rec |-> LogRecordOf(log.rows[Len(log.rows) - n]), opened |-> TRUE]

\* _get_record ending the sequence at a row that does not make a record,
\* instead of letting the exception out.
_get_record_swallow(log, n) ==
    IF n = 0 /\ _check_path_to_log(log.path) # "none"
    THEN [kind |-> "raise", exc |-> _check_path_to_log(log.path), opened |-> FALSE]
    ELSE IF n >= Len(log.rows) \/ RowRaises(log.rows[n + 1]) # "none"
    THEN [kind |-> "stop", opened |-> TRUE]
    ELSE [kind |-> "record", rec |-> LogRecordOf(log.rows[n + 1]), opened |-> TRUE]

\* One next() on the generator _get_record(log) that has consumed n rows.
\* Result: [kind |-> "record", rec], [kind |-> "stop"] or [kind |-> "raise", exc].
\* The path is checked and the file opened by the first next() only.
_get_record(log, n) ==
    IF n = 0 /\ _check_path_to_log(log.path) # "none"
    THEN [kind |-> "raise", exc |-> _check_path_to_log(log.path), opened |-> FALSE]
    ELSE IF n >= Len(log.rows)
    THEN [kind |-> "stop", opened |-> TRUE]
    ELSE IF RowRaises(log.rows[n + 1]) # "none"
    THEN [kind |-> "raise", exc |-> RowRaises(log.rows[n + 1]), opened |-> TRUE]
    ELSE [kind |-> "record", rec |-> LogRecordOf(log.rows[n + 1]), opened |-> TRUE]

\* The while condition with "and" for "or".
LoopCond_and(a, b) == a # None /\ b # None

\* The while condition of line 102.
LoopCond(a, b) == a # None \/ b # None

(***************************************************************************)
(* Initial state                                                           *)
(***************************************************************************)
Init ==
    /\ log_a \in InputFiles(MaxLenA)
    /\ log_b \in InputFiles(MaxLenB)
    /\ output_dir \in { [exists |-> FALSE, old |-> FALSE], [exists |-> TRUE, old |-> TRUE] }
    /\ overwrite \in BOOLEAN
    /\ (output_dir.exists \/ overwrite) =>
           /\ Len(log_a.rows) <= MaxLenExisting
           /\ Len(log_b.rows) <= MaxLenExisting
    /\ prompts = 0
    /\ answer = "none"
    /\ merged_log_file = <<>>
    /\ out_state = "absent"
    /\ log_a_record = Unbound
    /\ log_b_record = Unbound
    /\ read_a = 0
    /\ read_b = 0
    /\ handle_a = "unopened"
    /\ handle_b = "unopened"
    /\ yield_src = <<>>
    /\ pc = "main"
    /\ error = "none"

(***************************************************************************)
(* Operations                                                              *)
(***************************************************************************)
\* The handle of a reader after a next() with result res.
HandleAfter(res, handle) ==
    CASE res.kind = "record" -> "open"
      [] res.kind = "stop" -> "closed"
      [] OTHER -> IF res.opened THEN "closed" ELSE handle

\* An exception leaves main: the with block of line 125 closes the output.
Abort(exc) ==
    /\ pc' = "error"
    /\ error' = exc
    /\ out_state' = IF out_state = "open" THEN "closed" ELSE out_state

\* The answer with which the prompt of line 81 calls exit(0).
Declined_case_sensitive(typed) == typed = "no"

\* input().lower() != 'no' is false: the prompt of line 81 calls exit(0).
Declined(typed) == lower(typed) = "no"

\* main, lines 118-123, with _create_output_dir: the answer typed at the
\* prompt is the input.  exit(0) leaves everything as it is; otherwise an
\* existing directory is removed (rmtree) and the directory is made (mkdir).
CreateOutputDir ==
    /\ pc = "main"
    /\ IF output_dir.exists /\ ~overwrite
       THEN \E typed \in Answers :
               /\ prompts' = prompts + 1
               /\ answer' = typed
               /\ IF Declined(typed)
                  THEN /\ pc' = "exit"
                       /\ UNCHANGED output_dir
                  ELSE /\ pc' = "open"
                       /\ output_dir' = [exists |-> TRUE, old |-> FALSE]
       ELSE /\ pc' = "open"
            /\ output_dir' = [exists |-> TRUE, old |-> FALSE]
            /\ UNCHANGED <<prompts, answer>>
    /\ UNCHANGED <<log_a, log_b, overwrite, merged_log_file, out_state, log_a_record,
                   log_b_record, read_a, read_b, handle_a, handle_b, yield_src, error>>

\* main, lines 124-129: merged_log.jsonl is created and opened for writing and
\* the generator object is made; none of the generator's code has run yet.
OpenOutput ==
    /\ pc = "open"
    /\ out_state' = "open"
    /\ merged_log_file' = <<>>
    /\ pc' = "next_a"
    /\ UNCHANGED <<log_a, log_b, output_dir, overwrite, prompts, answer, log_a_record,
                   log_b_record, read_a, read_b, handle_a, handle_b, yield_src, error>>

\* _get_output_record, lines 96-99: the first next(log_a_records).  A
\* StopIteration is not caught here and leaves the generator as RuntimeError.
FirstA ==
    /\ pc = "next_a"
    /\ LET res == _get_record(log_a, read_a)
       IN  /\ handle_a' = HandleAfter(res, handle_a)
           /\ CASE res.kind = "record" ->
                     /\ log_a_record' = res.rec
                     /\ read_a' = read_a + 1
                     /\ pc' = "next_b"
                     /\ UNCHANGED <<error, out_state>>
                [] res.kind = "stop" ->
                     /\ Abort("RuntimeError")
                     /\ UNCHANGED <<log_a_record, read_a>>
                [] OTHER ->
                     /\ Abort(res.exc)
                     /\ read_a' = IF res.opened THEN read_a + 1 ELSE read_a
                     /\ UNCHANGED log_a_record
    /\ UNCHANGED <<log_a, log_b, output_dir, overwrite, prompts, answer, merged_log_file,
                   log_b_record, read_b, handle_b, yield_src>>

\* _get_output_record, line 100: the first next(log_b_records).
FirstB ==
    /\ pc = "next_b"
    /\ LET res == _get_record(log_b, read_b)
       IN  /\ handle_b' = HandleAfter(res, handle_b)
           /\ CASE res.kind = "record" ->
                     /\ log_b_record' = res.rec
                     /\ read_b' = read_b + 1
                     /\ pc' = "loop"
                     /\ UNCHANGED <<error, out_state>>
                [] res.kind = "stop" ->
                     /\ Abort("RuntimeError")
                     /\ UNCHANGED <<log_b_record, read_b>>
                [] OTHER ->
                     /\ Abort(res.exc)
                     /\ read_b' = IF res.opened THEN read_b + 1 ELSE read_b
                     /\ UNCHANGED log_b_record
    /\ UNCHANGED <<log_a, log_b, output_dir, overwrite, prompts, answer, merged_log_file,
                   log_a_record, read_a, handle_a, yield_src>>

\* _get_output_record, lines 102-104 and 109-110, with main, lines 130-131:
\* the while test, the comparison, the yield, and the write of the yielded
\* record.  When the test fails the generator ends and main closes the output.
\* asdict raises TypeError for a yielded value that is not a LogRecord.
MergeStep ==
    /\ pc = "loop"
    /\ IF ~LoopCond(log_a_record, log_b_record)
       THEN /\ pc' = "done"
            /\ out_state' = "closed"
            /\ UNCHANGED <<merged_log_file, yield_src, error>>
       ELSE IF LessRaises(log_a_record, log_b_record) # "none"
       THEN /\ Abort(LessRaises(log_a_record, log_b_record))
            /\ UNCHANGED <<merged_log_file, yield_src>>
       ELSE LET from == IF Less(log_a_record, log_b_record) THEN "a" ELSE "b"
                log_record == IF from = "a" THEN log_a_record ELSE log_b_record
            IN  IF log_record = None
                THEN /\ Abort("TypeError")
                     /\ UNCHANGED <<merged_log_file, yield_src>>
                ELSE /\ merged_log_file' = Append(merged_log_file, json_dumps(log_record))
                     /\ yield_src' = Append(yield_src, from)
                     /\ pc' = IF from = "a" THEN "resume_a" ELSE "resume_b"
                     /\ UNCHANGED <<out_state, error>>
    /\ UNCHANGED <<log_a, log_b, output_dir, overwrite, prompts, answer, log_a_record,
                   log_b_record, read_a, read_b, handle_a, handle_b>>

\* _get_output_record, lines 105-108: the generator is resumed after it
\* yielded A's record and advances A.
AdvanceA ==
    /\ pc = "resume_a"
    /\ LET res == _get_record(log_a, read_a)
       IN  /\ handle_a' = HandleAfter(res, handle_a)
           /\ CASE res.kind = "record" ->
                     /\ log_a_record' = res.rec
                     /\ read_a' = read_a + 1
                     /\ pc' = "loop"
                     /\ UNCHANGED <<error, out_state>>
                [] res.kind = "stop" ->
                     /\ log_a_record' = None
                     /\ pc' = "loop"
                     /\ UNCHANGED <<read_a, error, out_state>>
                [] OTHER ->
                     /\ Abort(res.exc)
                     /\ read_a' = read_a + 1
                     /\ UNCHANGED log_a_record
    /\ UNCHANGED <<log_a, log_b, output_dir, overwrite, prompts, answer, merged_log_file,
                   log_b_record, read_b, handle_b, yield_src>>

\* Lines 111-114 with the names of lines 105-108 left in: after B's record
\* was yielded, A is advanced.
AdvanceB_advances_a ==
    /\ pc = "resume_b"
    /\ LET res == _get_record(log_a, read_a)
       IN  /\ handle_a' = HandleAfter(res, handle_a)
           /\ CASE res.kind = "record" ->
                     /\ log_a_record' = res.rec
                     /\ read_a' = read_a + 1
                     /\ pc' = "loop"
                     /\ UNCHANGED <<error, out_state>>
                [] res.kind = "stop" ->
                     /\ log_a_record' = None
                     /\ pc' = "loop"
                     /\ UNCHANGED <<read_a, error, out_state>>
                [] OTHER ->
                     /\ Abort(res.exc)
                     /\ read_a' = read_a + 1
                     /\ UNCHANGED log_a_record
    /\ UNCHANGED <<log_a, log_b, output_dir, overwrite, prompts, answer, merged_log_file,
                   log_b_record, read_b, handle_b, yield_src>>

\* _get_output_record, lines 111-114: the generator is resumed after it
\* yielded B's record and advances B.
AdvanceB ==
    /\ pc = "resume_b"
    /\ LET res == _get_record(log_b, read_b)
       IN  /\ handle_b' = HandleAfter(res, handle_b)
           /\ CASE res.kind = "record" ->
                     /\ log_b_record' = res.rec
                     /\ read_b' = read_b + 1
                     /\ pc' = "loop"
                     /\ UNCHANGED <<error, out_state>>
                [] res.kind = "stop" ->
                     /\ log_b_record' = None
                     /\ pc' = "loop"
                     /\ UNCHANGED <<read_b, error, out_state>>
                [] OTHER ->
                     /\ Abort(res.exc)
                     /\ read_b' = read_b + 1
                     /\ UNCHANGED log_b_record
    /\ UNCHANGED <<log_a, log_b, output_dir, overwrite, prompts, answer, merged_log_file,
                   log_a_record, read_a, handle_a, yield_src>>

Next ==
    \/ CreateOutputDir
    \/ OpenOutput
    \/ FirstA
    \/ FirstB
    \/ MergeStep
    \/ AdvanceA
    \/ AdvanceB

Spec == Init /\ [][Next]_vars

\* The run is over: main returned, an exception left it, or exit(0) was called.
Stopped == pc \in {"done", "error", "exit"}

TypeOK ==
    /\ pc \in {"main", "open", "next_a", "next_b", "loop", "resume_a", "resume_b",
               "done", "error", "exit"}
    /\ out_state \in {"absent", "open", "closed"}
    /\ handle_a \in {"unopened", "open", "closed"}
    /\ handle_b \in {"unopened", "open", "closed"}
    /\ read_a \in 0..Len(log_a.rows)
    /\ read_b \in 0..Len(log_b.rows)
    /\ Len(yield_src) = Len(merged_log_file)
    /\ overwrite \in BOOLEAN
    /\ prompts \in 0..1
    /\ answer \in Answers \cup {"none"}

(***************************************************************************)
(* Vocabulary of the properties                                            *)
(***************************************************************************)
\* Both paths pass _check_path_to_log.
ValidPaths ==
    /\ _check_path_to_log(log_a.path) = "none"
    /\ _check_path_to_log(log_b.path) = "none"

\* Every row makes a LogRecord whose timestamp parses.
Parsable(rows) ==
    \A i \in DOMAIN rows :
        /\ RowRaises(rows[i]) = "none"
        /\ strptime(rows[i].obj.timestamp) # -1

\* Rows that are Parsable are non-decreasing by parsed timestamp.
SortedRows(rows) ==
    \A i, j \in DOMAIN rows :
        i < j => strptime(rows[i].obj.timestamp) <= strptime(rows[j].obj.timestamp)

SortedInputs ==
    /\ Parsable(log_a.rows) /\ SortedRows(log_a.rows)
    /\ Parsable(log_b.rows) /\ SortedRows(log_b.rows)

\* The records of a sequence of rows that all make records.
RecordsOf(rows) == [i \in DOMAIN rows |-> LogRecordOf(rows[i])]

\* The number of occurrences of x in seq.
Count(seq, x) == Cardinality({ i \in DOMAIN seq : seq[i] = x })

\* The parsed timestamp of the i-th row written.
OutTs(i) == strptime(merged_log_file[i].obj.timestamp)

(***************************************************************************)
(* C1  Sortedness                                                          *)
(***************************************************************************)
\* C1: when both inputs are non-decreasing by parsed timestamp, the records
\* written so far are non-decreasing by parsed timestamp in every state.
C1_Sortedness ==
    SortedInputs =>
        \A i \in 1..(Len(merged_log_file) - 1) : OutTs(i) <= OutTs(i + 1)

\* Sorted inputs with distinct timestamps were merged to the end, A's two
\* records around B's.
C1_Witness ==
    /\ SortedInputs
    /\ pc = "done"
    /\ yield_src = <<"a", "b", "a">>
    /\ OutTs(1) < OutTs(2) /\ OutTs(2) < OutTs(3)

(***************************************************************************)
(* C2  Completeness                                                        *)
(***************************************************************************)
\* C2: for sorted inputs of well-formed records, both non-empty, a merge that
\* ran to completion wrote len(A) + len(B) records, and every record occurs
\* in the output as often as in A and B together.
C2_Completeness ==
    (/\ ValidPaths /\ SortedInputs
     /\ log_a.rows # <<>> /\ log_b.rows # <<>>
     /\ pc = "done")
    => /\ Len(merged_log_file) = Len(log_a.rows) + Len(log_b.rows)
       /\ \A i \in DOMAIN merged_log_file : RowRaises(merged_log_file[i]) = "none"
       /\ \A r \in { LogRecordOf(row) : row \in { x \in InputRows : RowRaises(x) = "none" } }
                 \cup { LogRecordOf(merged_log_file[i]) : i \in DOMAIN merged_log_file } :
            Count(RecordsOf(merged_log_file), r)
              = Count(RecordsOf(log_a.rows), r) + Count(RecordsOf(log_b.rows), r)

\* A completed merge of two non-empty sorted inputs that share a record with
\* identical fields: the record is written twice.
C2_Witness ==
    /\ ValidPaths /\ SortedInputs
    /\ pc = "done"
    /\ Len(log_a.rows) = 2 /\ Len(log_b.rows) >= 1
    /\ LogRecordOf(log_a.rows[1]) = LogRecordOf(log_b.rows[1])
    /\ Count(RecordsOf(merged_log_file), LogRecordOf(log_a.rows[1])) = 2
    /\ Len(merged_log_file) = Len(log_a.rows) + Len(log_b.rows)

(***************************************************************************)
(* C3  Tie-break                                                           *)
(***************************************************************************)
\* C3: for sorted inputs, every record of A is written before every record of
\* B that carries the same parsed timestamp (the left source wins ties).
C3_LeftWinsTies ==
    SortedInputs =>
        \A i, j \in DOMAIN merged_log_file :
            (yield_src[i] = "b" /\ yield_src[j] = "a" /\ OutTs(i) = OutTs(j)) => j < i

(***************************************************************************)
(* C4  Empty side                                                          *)
(***************************************************************************)
\* C4: when exactly one input has no rows and the other is a non-empty
\* sequence of well-formed records, the merge raises no error and, once it
\* stopped, the output is the non-empty input's records in the same order.
C4_EmptySidePassThrough ==
    (/\ ValidPaths
     /\ Parsable(log_a.rows) /\ Parsable(log_b.rows)
     /\ (log_a.rows = <<>>) # (log_b.rows = <<>>))
    => /\ pc # "error"
       /\ pc = "done" =>
            RecordsOf(merged_log_file)
              = RecordsOf(IF log_a.rows = <<>> THEN log_b.rows ELSE log_a.rows)

(***************************************************************************)
(* C5  Both inputs empty                                                   *)
(***************************************************************************)
\* C5: when neither input has a row, no error state is reached, and the merge
\* ends with merged_log.jsonl holding no row.
C5_BothEmptyNoError ==
    (ValidPaths /\ log_a.rows = <<>> /\ log_b.rows = <<>>)
    => /\ pc # "error"
       /\ error = "none"
       /\ merged_log_file = <<>>

(***************************************************************************)
(* C6  Invalid timestamp                                                   *)
(***************************************************************************)
\* The rows of both inputs whose timestamp does not parse.
BadTimestampRows ==
    { <<"a", i>> : i \in { k \in DOMAIN log_a.rows :
          RowRaises(log_a.rows[k]) = "none" /\ strptime(log_a.rows[k].obj.timestamp) = -1 } }
    \cup
    { <<"b", i>> : i \in { k \in DOMAIN log_b.rows :
          RowRaises(log_b.rows[k]) = "none" /\ strptime(log_b.rows[k].obj.timestamp) = -1 } }

\* rows without its rows that do not parse
Without(rows, S) == SelectSeq(rows, LAMBDA x : x \notin S)

UnparsableRows == { x \in InputRows : RowRaises(x) = "none" /\ strptime(x.obj.timestamp) = -1 }

\* Exactly one row of the two inputs has a timestamp that does not parse; all
\* other rows are well-formed and sorted.
OneInvalidTimestamp ==
    /\ ValidPaths
    /\ \A i \in DOMAIN log_a.rows : RowRaises(log_a.rows[i]) = "none"
    /\ \A i \in DOMAIN log_b.rows : RowRaises(log_b.rows[i]) = "none"
    /\ Cardinality(BadTimestampRows) = 1
    /\ SortedRows(Without(log_a.rows, UnparsableRows))
    /\ SortedRows(Without(log_b.rows, UnparsableRows))

\* C6: with exactly one row whose timestamp does not parse, the merge never
\* completes normally and the record of that row is never written.
C6_InvalidTimestampAborts ==
    OneInvalidTimestamp
    => /\ pc # "done"
       /\ \A i \in DOMAIN merged_log_file : OutTs(i) # -1

(***************************************************************************)
(* C7  Structurally invalid row                                            *)
(***************************************************************************)
\* The index of the first row that is not JSON or lacks / exceeds the three
\* fields; Len(rows) + 1 when there is none.
FirstInvalid(rows) ==
    IF \E i \in DOMAIN rows : RowRaises(rows[i]) # "none"
    THEN CHOOSE i \in DOMAIN rows :
            /\ RowRaises(rows[i]) # "none"
            /\ \A k \in 1..(i - 1) : RowRaises(rows[k]) = "none"
    ELSE Len(rows) + 1

\* The reader of A (of B) is about to read a structurally invalid row.
ReaderAtInvalidA ==
    /\ pc \in {"next_a", "resume_a"}
    /\ _check_path_to_log(log_a.path) = "none"
    /\ read_a < Len(log_a.rows)
    /\ RowRaises(log_a.rows[read_a + 1]) # "none"

ReaderAtInvalidB ==
    /\ pc \in {"next_b", "resume_b"}
    /\ _check_path_to_log(log_b.path) = "none"
    /\ read_b < Len(log_b.rows)
    /\ RowRaises(log_b.rows[read_b + 1]) # "none"

\* C7: a read of a structurally invalid row ends the run with the parse error
\* of that row, makes no record of it and writes nothing; no row at or after
\* the first invalid row of a source is ever read past or written; and
\* nothing happens after an error.
C7_InvalidRowFatal ==
    [][ /\ ReaderAtInvalidA =>
             /\ pc' = "error"
             /\ error' = RowRaises(log_a.rows[read_a + 1])
             /\ log_a_record' = log_a_record
             /\ merged_log_file' = merged_log_file
        /\ ReaderAtInvalidB =>
             /\ pc' = "error"
             /\ error' = RowRaises(log_b.rows[read_b + 1])
             /\ log_b_record' = log_b_record
             /\ merged_log_file' = merged_log_file
        /\ pc # "error"
        /\ read_a' <= FirstInvalid(log_a.rows)
        /\ read_b' <= FirstInvalid(log_b.rows)
        /\ Count(yield_src', "a") < FirstInvalid(log_a.rows)
        /\ Count(yield_src', "b") < FirstInvalid(log_b.rows)
      ]_vars

\* The merge wrote A's first record, then A's reader hit a row that is not
\* JSON in second place, with a record of B still waiting.
C7_Witness ==
    /\ pc = "error"
    /\ error = "JSONDecodeError"
    /\ FirstInvalid(log_a.rows) = 2
    /\ read_a = 2
    /\ yield_src = <<"a">>
    /\ log_b_record \notin {None, Unbound}

(***************************************************************************)
(* C8  Validation before reading                                           *)
(***************************************************************************)
\* C8: both paths are checked before any row of either input is read, so a
\* row has been read only if both paths are valid.
C8_ValidatedBeforeReading ==
    (read_a > 0 \/ read_b > 0) => ValidPaths

(***************************************************************************)
(* C9  Invalid input before any merge work                                 *)
(***************************************************************************)
\* The run ended with the exception of _check_path_to_log.
PathErrorRaised ==
    /\ pc = "error"
    /\ \/ /\ handle_a = "unopened"
          /\ error = _check_path_to_log(log_a.path)
       \/ /\ handle_a # "unopened"
          /\ handle_b = "unopened"
          /\ read_b = 0
          /\ _check_path_to_log(log_b.path) # "none"
          /\ error = _check_path_to_log(log_b.path)

\* The destination is as it was before the run.
DestinationUntouched ==
    /\ output_dir.exists = output_dir.old
    /\ out_state = "absent"
    /\ merged_log_file = <<>>

\* C9: when the error of an invalid input path is raised, the destination is
\* still untouched.
C9_InvalidInputBeforeWork ==
    PathErrorRaised => DestinationUntouched

(***************************************************************************)
(* C10  Termination                                                        *)
(***************************************************************************)
\* A cursor holds a lookahead record.
HoldsRecord(cursor) == cursor \notin {None, Unbound}

\* C10: for inputs of well-formed records, the merge is stopped only when
\* both sources are exhausted: neither cursor holds a lookahead record and
\* every row of both inputs has been read.
C10_StopsWhenExhausted ==
    (ValidPaths /\ Parsable(log_a.rows) /\ Parsable(log_b.rows) /\ pc \in {"done", "error"})
    => /\ ~HoldsRecord(log_a_record)
       /\ ~HoldsRecord(log_b_record)
       /\ read_a = Len(log_a.rows)
       /\ read_b = Len(log_b.rows)

(***************************************************************************)
(* C11  Overwrite decision                                                 *)
(***************************************************************************)
\* The answers that are the string 'no' in some case.
IsNo(typed) == typed \in {"no", "No", "NO", "nO"}

\* The directory after it was deleted and made again, or made for the first time.
FreshDir == [exists |-> TRUE, old |-> FALSE]

\* The exit code of the process: exit(0) and a return of main give 0, an
\* exception that leaves main gives 1; -1 while the process runs.
ExitCode ==
    CASE pc \in {"exit", "done"} -> 0
      [] pc = "error" -> 1
      [] OTHER -> -1

\* C11: with -w an existing directory is deleted and made again with no
\* prompt; without -w there is exactly one prompt, the answer 'no' in any case
\* exits with code 0 and leaves the directory and everything else as it is,
\* any other answer deletes the directory and makes it again; a directory
\* that does not exist is made with no prompt.  No prompt is shown later and
\* nothing happens after the exit.
C11_OverwriteDecision ==
    [][ /\ (pc = "main" /\ output_dir.exists /\ overwrite) =>
             /\ prompts' = prompts /\ answer' = answer
             /\ output_dir' = FreshDir
             /\ pc' = "open"
        /\ (pc = "main" /\ output_dir.exists /\ ~overwrite) =>
             /\ prompts' = prompts + 1
             /\ answer' \in Answers
             /\ IF IsNo(answer')
                THEN /\ pc' = "exit"
                     /\ ExitCode' = 0
                     /\ output_dir' = output_dir
                     /\ out_state' = "absent"
                     /\ read_a' = 0 /\ read_b' = 0
                ELSE /\ pc' = "open"
                     /\ output_dir' = FreshDir
        /\ (pc = "main" /\ ~output_dir.exists) =>
             /\ prompts' = prompts /\ answer' = answer
             /\ output_dir' = FreshDir
             /\ pc' = "open"
        /\ pc # "main" => prompts' = prompts /\ answer' = answer
        /\ pc # "exit"
        /\ prompts' <= 1
      ]_vars

\* The user answered "No" at the prompt for an existing directory: the
\* process exited with the directory as it was.
C11_Witness ==
    /\ pc = "exit"
    /\ ~overwrite
    /\ prompts = 1
    /\ answer = "No"
    /\ output_dir = [exists |-> TRUE, old |-> TRUE]
    /\ out_state = "absent"

(***************************************************************************)
(* C12  The output is an append-only prefix                                *)
(***************************************************************************)
\* The row of one record: a JSON object of the three fields of rec, in the
\* layout of json.dumps.
RowFor(rec) ==
    [text |-> "object", layout |-> "dumps",
     obj |-> [log_level |-> rec.log_level, timestamp |-> rec.timestamp,
              message |-> rec.message]]

\* C12: merged_log.jsonl holds one row per record yielded; a step leaves the
\* rows as they are or appends the row of the record just yielded, whole;
\* a step that ends in an error, and a step after the file was closed,
\* leave the rows as they are.
C12_AppendOnlyOutput ==
    [][ /\ Len(merged_log_file') = Len(yield_src')
        /\ \/ merged_log_file' = merged_log_file
           \/ /\ pc = "loop"
              /\ Len(yield_src') = Len(yield_src) + 1
              /\ LET rec == IF yield_src'[Len(yield_src')] = "a"
                            THEN log_a_record ELSE log_b_record
                 IN  /\ HoldsRecord(rec)
                     /\ merged_log_file' = Append(merged_log_file, RowFor(rec))
        /\ pc' = "error" => merged_log_file' = merged_log_file
        /\ out_state = "closed" => merged_log_file' = merged_log_file
      ]_vars

\* Two rows were written, one of each input, then a comparison raised on a
\* timestamp that does not parse: both rows are in the closed file.
C12_Witness ==
    /\ pc = "error"
    /\ error = "ValueError"
    /\ ValidPaths
    /\ out_state = "closed"
    /\ Len(merged_log_file) = 2
    /\ yield_src = <<"b", "a">>
    /\ \A i \in 1..2 : merged_log_file[i].layout = "dumps" /\ OutTs(i) # -1

(***************************************************************************)
(* C13  Release of the input handles                                       *)
(***************************************************************************)
\* C13: the handle of a source found exhausted is closed, and once the merge
\* has ended, by completion or by an exception, no input handle is open.
C13_HandlesReleased ==
    /\ log_a_record = None => handle_a = "closed"
    /\ log_b_record = None => handle_b = "closed"
    /\ pc \in {"done", "error"} => (handle_a # "open" /\ handle_b # "open")

(***************************************************************************)
(* C14  Determinism                                                        *)
(***************************************************************************)
\* The merge as a function of two sequences of <<source, record>> pairs: the
\* head of the first is taken when its timestamp is strictly earlier.
RECURSIVE MergeOf(_, _)
MergeOf(A, B) ==
    IF A = <<>> THEN B
    ELSE IF B = <<>> THEN A
    ELSE IF strptime(A[1][2].timestamp) < strptime(B[1][2].timestamp)
         THEN <<A[1]>> \o MergeOf(Tail(A), B)
         ELSE <<B[1]>> \o MergeOf(A, Tail(B))

Tagged(src, rows) == [i \in DOMAIN rows |-> <<src, LogRecordOf(rows[i])>>]

\* What has been written, as <<source, record>> pairs.
Written == [i \in DOMAIN merged_log_file |-> <<yield_src[i], LogRecordOf(merged_log_file[i])>>]

IsPrefix(p, q) == Len(p) <= Len(q) /\ \A i \in DOMAIN p : p[i] = q[i]

\* Both inputs are non-empty files of records whose timestamps parse.
WellFormedInputs ==
    /\ ValidPaths
    /\ Parsable(log_a.rows) /\ log_a.rows # <<>>
    /\ Parsable(log_b.rows) /\ log_b.rows # <<>>

\* C14: the output is a function of the two inputs alone: in every state what
\* has been written is a prefix of MergeOf(A, B), whatever else the run did,
\* and a completed merge has written all of it; records with equal timestamps
\* from the two inputs therefore always come in the same order.
C14_Deterministic ==
    WellFormedInputs =>
        LET result == MergeOf(Tagged("a", log_a.rows), Tagged("b", log_b.rows))
        IN  /\ IsPrefix(Written, result)
            /\ pc = "done" => Written = result
            /\ pc # "error"

\* A completed merge of inputs whose first records have equal timestamps,
\* reached after the prompt was answered.
C14_Witness ==
    /\ WellFormedInputs
    /\ pc = "done"
    /\ prompts = 1
    /\ Len(merged_log_file) = 2
    /\ OutTs(1) = OutTs(2)
    /\ merged_log_file[1] # merged_log_file[2]
    /\ yield_src = <<"b", "a">>

(***************************************************************************)
(* C15  Exhausted-side rule                                                *)
(***************************************************************************)
\* C15: a merge step with one cursor exhausted and the other holding a record
\* writes the other side's lookahead record and goes on to advance that side,
\* whatever its timestamp; advancing one side leaves the other side's cursor,
\* reader and handle alone; a cursor that is exhausted stays exhausted and its
\* source is not read again; every row written is the row of a record.
C15_ExhaustedSide ==
    [][ /\ (pc = "loop" /\ log_a_record = None /\ HoldsRecord(log_b_record)) =>
             /\ merged_log_file' = Append(merged_log_file, RowFor(log_b_record))
             /\ yield_src' = Append(yield_src, "b")
             /\ pc' = "resume_b"
        /\ (pc = "loop" /\ log_b_record = None /\ HoldsRecord(log_a_record)) =>
             /\ merged_log_file' = Append(merged_log_file, RowFor(log_a_record))
             /\ yield_src' = Append(yield_src, "a")
             /\ pc' = "resume_a"
        /\ pc = "resume_b" =>
             log_a_record' = log_a_record /\ read_a' = read_a /\ handle_a' = handle_a
        /\ pc = "resume_a" =>
             log_b_record' = log_b_record /\ read_b' = read_b /\ handle_b' = handle_b
        /\ log_a_record = None =>
             log_a_record' = None /\ read_a' = read_a /\ pc' # "resume_a"
        /\ log_b_record = None =>
             log_b_record' = None /\ read_b' = read_b /\ pc' # "resume_b"
        /\ \A i \in DOMAIN merged_log_file' : RowRaises(merged_log_file'[i]) = "none"
      ]_vars

\* A was exhausted first and B's two remaining records were passed through;
\* B is about to be advanced again.
C15_Witness ==
    /\ log_a_record = None
    /\ pc = "resume_b"
    /\ yield_src = <<"a", "b", "b">>
    /\ read_a = 1 /\ read_b = 2

(***************************************************************************)
(* C16  Comparison step rule                                               *)
(***************************************************************************)
\* Both cursors hold a record and both timestamps parse.
BothHold ==
    /\ HoldsRecord(log_a_record) /\ strptime(log_a_record.timestamp) # -1
    /\ HoldsRecord(log_b_record) /\ strptime(log_b_record.timestamp) # -1

\* C16: a merge step with a record on both sides writes A's record and goes
\* on to advance A when A's timestamp is strictly earlier, and otherwise
\* writes B's record and goes on to advance B; the step that writes leaves
\* both cursors as they are, the step that advances writes nothing, moves
\* its own source by one row or to exhausted and leaves the other side alone;
\* no step writes more than one row.
C16_ComparisonStep ==
    [][ /\ (pc = "loop" /\ BothHold) =>
             /\ IF strptime(log_a_record.timestamp) < strptime(log_b_record.timestamp)
                THEN /\ merged_log_file' = Append(merged_log_file, RowFor(log_a_record))
                     /\ yield_src' = Append(yield_src, "a")
                     /\ pc' = "resume_a"
                ELSE /\ merged_log_file' = Append(merged_log_file, RowFor(log_b_record))
                     /\ yield_src' = Append(yield_src, "b")
                     /\ pc' = "resume_b"
             /\ log_a_record' = log_a_record /\ log_b_record' = log_b_record
             /\ read_a' = read_a /\ read_b' = read_b
        /\ pc = "resume_a" =>
             /\ merged_log_file' = merged_log_file
             /\ log_b_record' = log_b_record /\ read_b' = read_b
             /\ pc' = "loop" =>
                  \/ read_a' = read_a + 1 /\ log_a_record' = LogRecordOf(log_a.rows[read_a'])
                  \/ read_a' = read_a /\ read_a = Len(log_a.rows) /\ log_a_record' = None
        /\ pc = "resume_b" =>
             /\ merged_log_file' = merged_log_file
             /\ log_a_record' = log_a_record /\ read_a' = read_a
             /\ pc' = "loop" =>
                  \/ read_b' = read_b + 1 /\ log_b_record' = LogRecordOf(log_b.rows[read_b'])
                  \/ read_b' = read_b /\ read_b = Len(log_b.rows) /\ log_b_record' = None
        /\ Len(merged_log_file') <= Len(merged_log_file) + 1
      ]_vars

\* A's first record was strictly earlier and was written; then the two
\* lookaheads had equal timestamps and B's record was written.
C16_Witness ==
    /\ pc = "resume_b"
    /\ BothHold
    /\ strptime(log_a_record.timestamp) = strptime(log_b_record.timestamp)
    /\ yield_src = <<"a", "b">>
    /\ merged_log_file[2] = RowFor(log_b_record)
    /\ OutTs(1) < OutTs(2)

(***************************************************************************)
(* C17  Bounded lookahead                                                  *)
(***************************************************************************)
\* The rows of a source read and not written.
PendingA == read_a - Count(yield_src, "a")
PendingB == read_b - Count(yield_src, "b")

\* C17: in every state each source has at most one row read and not yet
\* written, and none is written before it is read.
C17_BoundedLookahead ==
    /\ PendingA \in {0, 1}
    /\ PendingB \in {0, 1}

\* Both of B's records were written while A's first record stayed pending.
C17_Witness ==
    /\ Len(log_a.rows) = 2 /\ Len(log_b.rows) = 2
    /\ yield_src = <<"b", "b">>
    /\ PendingA = 1 /\ HoldsRecord(log_a_record)
    /\ PendingB = 0
    /\ pc = "resume_b"

(***************************************************************************)
(* C18  Per-source order                                                   *)
(***************************************************************************)
\* The records written that came from src, in the order written.
WrittenFrom(src) ==
    LET picked == SelectSeq(Written, LAMBDA p : p[1] = src)
    IN  [i \in DOMAIN picked |-> picked[i][2]]

\* C18: for non-empty inputs of well-formed records, sorted or not, the
\* records written from A are in every state the first records of A in A's
\* order, and those written from B the first records of B in B's order.
C18_SourceOrder ==
    WellFormedInputs =>
        /\ IsPrefix(WrittenFrom("a"), RecordsOf(log_a.rows))
        /\ IsPrefix(WrittenFrom("b"), RecordsOf(log_b.rows))

\* A completed merge of two inputs that are both not sorted: the output is
\* not sorted, and each input's records are in their own order.
C18_Witness ==
    /\ WellFormedInputs
    /\ ~SortedRows(log_a.rows) /\ ~SortedRows(log_b.rows)
    /\ pc = "done"
    /\ Len(merged_log_file) = 4
    /\ WrittenFrom("a") = RecordsOf(log_a.rows)
    /\ WrittenFrom("b") = RecordsOf(log_b.rows)
    /\ \E i \in 1..3 : OutTs(i) > OutTs(i + 1)

====
